---- MODULE Spec2Model ----
(***************************************************************************)
(* Model of the Moonstone importer: the modular application                *)
(* (src/processors, src/utils, src/services, src/core) and the original    *)
(* single-file script that the repository still carries.  Both read the    *)
(* same sheet and write the same document store; the variable impl says    *)
(* which of the two is running.                                            *)
(*                                                                         *)
(* Text is a sequence of characters, each character a string.  ASCII       *)
(* characters stand for themselves, other code points are written U+XXXX.  *)
(***************************************************************************)
EXTENDS Integers, Sequences, FiniteSets, TLC

\* ------------------------------------------------------------------------
\* Bounds of the model
\* ------------------------------------------------------------------------
\* rows of one kind in the sheet of a single run
MaxPrimary == 2
MaxReferrals == 2
\* rows in a sheet, and runs, when several runs follow each other
MaxRunRows == 2
MaxLongRuns == 3
MaxSpellingRuns == 2
MaxRepeats == 2

\* ------------------------------------------------------------------------
\* Characters
\* ------------------------------------------------------------------------
Alnum ==
  {"a","b","c","d","e","f","g","h","i","j","k","l","m","n","o","p","q","r",
   "s","t","u","v","w","x","y","z","0","1","2","3","4","5","6","7","8","9"}

UpperToLower ==
  [c \in {"A","B","C","D","E","F","G","H","I","J","K","L","M","N","O","P","Q",
          "R","S","T","U","V","W","X","Y","Z","U+00C9"} |->
     CASE c = "A" -> "a" [] c = "B" -> "b" [] c = "C" -> "c" [] c = "D" -> "d"
       [] c = "E" -> "e" [] c = "F" -> "f" [] c = "G" -> "g" [] c = "H" -> "h"
       [] c = "I" -> "i" [] c = "J" -> "j" [] c = "K" -> "k" [] c = "L" -> "l"
       [] c = "M" -> "m" [] c = "N" -> "n" [] c = "O" -> "o" [] c = "P" -> "p"
       [] c = "Q" -> "q" [] c = "R" -> "r" [] c = "S" -> "s" [] c = "T" -> "t"
       [] c = "U" -> "u" [] c = "V" -> "v" [] c = "W" -> "w" [] c = "X" -> "x"
       [] c = "Y" -> "y" [] c = "Z" -> "z" [] c = "U+00C9" -> "U+00E9"]

\* String.prototype.toLowerCase, one character
lowerChar(c) == IF c \in DOMAIN UpperToLower THEN UpperToLower[c] ELSE c

\* String.prototype.normalize("NFKD"), one character: e-acute decomposes
\* into e and the combining acute accent, the super- and subscript digits
\* into the plain digit
nfkdChar(c) ==
  CASE c = "U+00E9" -> <<"e", "U+0301">>
    [] c = "U+00B2" -> <<"2">>
    [] c = "U+2082" -> <<"2">>
    [] OTHER -> <<c>>

\* the digitMap of normalizeText / mapDigits of normName
digitMap(c) ==
  CASE c = "U+00B2" -> "2"
    [] c = "U+2082" -> "2"
    [] OTHER -> c

\* \p{Diacritic}
Diacritic == {"U+0301", "U+0308"}

\* what String.prototype.trim removes
WhiteSpace == {" ", "\t"}

\* ------------------------------------------------------------------------
\* Sequence helpers
\* ------------------------------------------------------------------------
RECURSIVE Flatten(_)
Flatten(ss) == IF ss = <<>> THEN <<>> ELSE Head(ss) \o Flatten(Tail(ss))

RECURSIVE trimLeft(_)
trimLeft(s) ==
  IF s # <<>> /\ Head(s) \in WhiteSpace THEN trimLeft(Tail(s)) ELSE s

RECURSIVE trimRight(_)
trimRight(s) ==
  IF s # <<>> /\ s[Len(s)] \in WhiteSpace
  THEN trimRight(SubSeq(s, 1, Len(s) - 1)) ELSE s

\* String.prototype.trim
trim(s) == trimRight(trimLeft(s))

toLowerCase(s) == [k \in 1..Len(s) |-> lowerChar(s[k])]

\* .replace(/[^a-z0-9]+/g, " "): every run of other characters is one space
RECURSIVE collapseNonAlnum(_, _)
collapseNonAlnum(s, out) ==
  IF s = <<>> THEN out
  ELSE IF Head(s) \in Alnum
       THEN collapseNonAlnum(Tail(s), Append(out, Head(s)))
       ELSE IF out # <<>> /\ out[Len(out)] = " "
            THEN collapseNonAlnum(Tail(s), out)
            ELSE collapseNonAlnum(Tail(s), Append(out, " "))

\* normalizeText without the case folding
normalizeText_KeepCase(text) ==
  LET decomposed == Flatten([k \in 1..Len(text) |-> nfkdChar(text[k])])
      digits == [k \in 1..Len(decomposed) |-> digitMap(decomposed[k])]
      stripped == SelectSeq(digits, LAMBDA c : c \notin Diacritic)
  IN  trim(collapseNonAlnum(stripped, <<>>))

\* normalizeText with the trim before the collapse of the non-alphanumeric
\* runs instead of after it
normalizeText_TrimBeforeCollapse(text) ==
  LET lowered == toLowerCase(text)
      decomposed == Flatten([k \in 1..Len(lowered) |-> nfkdChar(lowered[k])])
      digits == [k \in 1..Len(decomposed) |-> digitMap(decomposed[k])]
      stripped == SelectSeq(digits, LAMBDA c : c \notin Diacritic)
  IN  collapseNonAlnum(trim(stripped), <<>>)

\* normalizeText (textUtils) and normName (original script): the same steps
normalizeText(text) ==
  LET lowered == toLowerCase(text)
      decomposed == Flatten([k \in 1..Len(lowered) |-> nfkdChar(lowered[k])])
      digits == [k \in 1..Len(decomposed) |-> digitMap(decomposed[k])]
      stripped == SelectSeq(digits, LAMBDA c : c \notin Diacritic)
  IN  trim(collapseNonAlnum(stripped, <<>>))

normName(s) == normalizeText(s)

\* ------------------------------------------------------------------------
\* Edit distance (fastest-levenshtein's distance): Levenshtein, row by row
\* ------------------------------------------------------------------------
Min2(x, y) == IF x <= y THEN x ELSE y

RECURSIVE levRow(_, _, _, _)
\* prev: the row for the prefix of a before ch; cur: the cells of the new
\* row computed so far (cur[j+1] is the cell for the first j characters of b)
levRow(prev, ch, b, cur) ==
  IF Len(cur) = Len(b) + 1 THEN cur
  ELSE LET j == Len(cur)
           cost == IF b[j] = ch THEN 0 ELSE 1
           cell == Min2(Min2(prev[j + 1] + 1, cur[j] + 1), prev[j] + cost)
       IN  levRow(prev, ch, b, Append(cur, cell))

RECURSIVE levRows(_, _, _)
levRows(a, b, row) ==
  IF a = <<>> THEN row
  ELSE levRows(Tail(a), b, levRow(row, Head(a), b, <<row[1] + 1>>))

distance(a, b) == levRows(a, b, [j \in 1..(Len(b) + 1) |-> j - 1])[Len(b) + 1]

\* ------------------------------------------------------------------------
\* Fuzzy matcher
\* ------------------------------------------------------------------------
\* JavaScript's null, as a value that is no text
Null == <<"null">>
\* Infinity, for the best score before any candidate was seen
Infinity == 1000000

\* the loop of findBestMatch: best is [match, score]
RECURSIVE bestMatchLoop(_, _, _)
bestMatchLoop(normalizedTarget, candidates, best) ==
  IF candidates = <<>> THEN best
  ELSE LET candidate == Head(candidates)
           score == distance(normalizedTarget, normalizeText(candidate))
       IN  IF candidate = <<>>
           THEN bestMatchLoop(normalizedTarget, Tail(candidates), best)
           ELSE IF score < best.score
                THEN bestMatchLoop(normalizedTarget, Tail(candidates),
                                   [match |-> candidate, score |-> score])
                ELSE bestMatchLoop(normalizedTarget, Tail(candidates), best)

\* a loop in which a later candidate at the same distance replaces the best
RECURSIVE bestMatchLoop_LastWins(_, _, _)
bestMatchLoop_LastWins(normalizedTarget, candidates, best) ==
  IF candidates = <<>> THEN best
  ELSE LET candidate == Head(candidates)
           score == distance(normalizedTarget, normalizeText(candidate))
       IN  IF candidate # <<>> /\ score <= best.score
           THEN bestMatchLoop_LastWins(normalizedTarget, Tail(candidates),
                                       [match |-> candidate, score |-> score])
           ELSE bestMatchLoop_LastWins(normalizedTarget, Tail(candidates), best)

\* findBestMatch with the later of two equally distant candidates winning
findBestMatch_LastMinimum(target, candidates, maxDistance) ==
  IF target = <<>> THEN Null
  ELSE LET best == bestMatchLoop_LastWins(normalizeText(target), candidates,
                                          [match |-> Null, score |-> Infinity])
       IN  IF best.score <= maxDistance THEN best.match ELSE Null

\* findBestMatch returning the first candidate within maxDistance, nearest
\* or not
findBestMatch_FirstWithinThreshold(target, candidates, maxDistance) ==
  LET within == SelectSeq(candidates,
                  LAMBDA c : c # <<>> /\ distance(normalizeText(target),
                                                  normalizeText(c)) <= maxDistance)
  IN  IF target = <<>> \/ within = <<>> THEN Null ELSE Head(within)

\* findBestMatch with the threshold test off by one: a candidate at exactly
\* maxDistance is rejected
findBestMatch_StrictThreshold(target, candidates, maxDistance) ==
  IF target = <<>> THEN Null
  ELSE LET best == bestMatchLoop(normalizeText(target), candidates,
                                 [match |-> Null, score |-> Infinity])
       IN  IF best.score < maxDistance THEN best.match ELSE Null

findBestMatch(target, candidates, maxDistance) ==
  IF target = <<>> THEN Null
  ELSE LET best == bestMatchLoop(normalizeText(target), candidates,
                                 [match |-> Null, score |-> Infinity])
       IN  IF best.score <= maxDistance THEN best.match ELSE Null

\* the loop of getBestMatch in the original script: the keys are compared
\* as they are
RECURSIVE getBestMatchLoop(_, _, _)
getBestMatchLoop(targetKey, candidates, best) ==
  IF candidates = <<>> THEN best
  ELSE LET c == Head(candidates)
           score == distance(targetKey, c)
       IN  IF score < best.score
           THEN getBestMatchLoop(targetKey, Tail(candidates),
                                 [match |-> c, score |-> score])
           ELSE getBestMatchLoop(targetKey, Tail(candidates), best)

getBestMatch(targetKey, candidates) ==
  LET best == getBestMatchLoop(targetKey, candidates,
                               [match |-> Null, score |-> Infinity])
  IN  IF best.score <= 2 THEN best.match ELSE Null

\* ------------------------------------------------------------------------
\* The sheet
\* ------------------------------------------------------------------------
\* A row is its form type (what the intent cell in column 3 classifies to)
\* and its name cell: column 73 of a founder row, 9 of a founder referral,
\* 37 of a searcher, 22 of a searcher referral.
FounderNames == { <<"A","c","m","e">>, <<"A">> }
FounderReferralNames == { <<"a","c","m","e">>, <<"A","c","m">> }
SearcherNames == { <<"A","n","n">>, <<"A","n","n",".">> }
SearcherReferralNames == { <<"a","n","n">>, <<"A","n">> }

FounderTrackRows ==
  [kind : {"founder"}, name : FounderNames]
    \cup [kind : {"founder referral"}, name : FounderReferralNames]
SearcherTrackRows ==
  [kind : {"searcher"}, name : SearcherNames]
    \cup [kind : {"searcher referral"}, name : SearcherReferralNames]
AllRows == FounderTrackRows \cup SearcherTrackRows

SeqsUpTo(S, n) == UNION {[1..k -> S] : k \in 0..n}

countKind(rows, kinds) ==
  Cardinality({k \in DOMAIN rows : rows[k].kind \in kinds})

\* the sheets of one track with at most MaxPrimary primary rows and at most
\* MaxReferrals referral rows, in any order
TrackSheets(trackRows, primaryKind) ==
  {s \in SeqsUpTo(trackRows, MaxPrimary + MaxReferrals) :
     /\ countKind(s, {primaryKind}) <= MaxPrimary
     /\ countKind(s, {"founder referral", "searcher referral"}) <= MaxReferrals}

\* the rows of the sheets that are read run after run
FounderRunRows ==
  { [kind |-> "founder", name |-> <<"A","c","m","e">>],
    [kind |-> "founder referral", name |-> <<"a","c","m","e">>] }
SearcherRunRows ==
  { [kind |-> "searcher", name |-> <<"A","n","n">>],
    [kind |-> "searcher referral", name |-> <<"A","n","n">>] }
FounderRunSheets == SeqsUpTo(FounderRunRows, MaxRunRows)
SearcherRunSheets == SeqsUpTo(SearcherRunRows, MaxRunRows)
RunSheets == FounderRunSheets \cup SearcherRunSheets

\* the referral rows the referral index is built from: names that need
\* trimming, that differ in case and punctuation only, that are empty, and
\* that hold no letter or digit
MaxIndexRows == 3
IndexNames ==
  { <<" ","A","c","m","e">>, <<"a","c","m","e">>, <<"A","C","M","E",".">>,
    <<"A","c","m">>, <<"-">>, <<>> }
IndexSheets ==
  SeqsUpTo([kind : {"founder referral"}, name : IndexNames], MaxIndexRows)

\* the sheets a single run may read
Sheets ==
  TrackSheets(FounderTrackRows, "founder")
    \cup TrackSheets(SearcherTrackRows, "searcher")
    \cup RunSheets

\* categorizeAllForms followed by filterValidForms, one category: the rows
\* of the form type that have their name cell, in sheet order
validateFormData(row) == trim(row.name) # <<>>
category(rows, formType) ==
  SelectSeq(rows, LAMBDA r : r.kind = formType /\ validateFormData(r))

\* the four lists the original script builds in its first loop over the rows
originalCategory(rows, formType) == SelectSeq(rows, LAMBDA r : r.kind = formType)

\* categorizeAllForms: the rows of each category, in sheet order
categorizeAllForms(allRows) ==
  [founders |-> originalCategory(allRows, "founder"),
   founderReferrals |-> originalCategory(allRows, "founder referral"),
   searchers |-> originalCategory(allRows, "searcher"),
   searcherReferrals |-> originalCategory(allRows, "searcher referral")]

filterValidForms(categories) ==
  [c \in DOMAIN categories |-> SelectSeq(categories[c], validateFormData)]

\* stats.byType of getFormStatistics
getFormStatistics(categories) ==
  [c \in DOMAIN categories |->
     LET forms == categories[c]
         validForms == SelectSeq(forms, validateFormData)
     IN  [total |-> Len(forms), valid |-> Len(validForms),
          invalid |-> Len(forms) - Len(validForms)]]

\* what processFormData returns: the statistics are taken of the forms that
\* filterValidForms returned
processFormData(sheetsData) ==
  LET categorizedForms == categorizeAllForms(sheetsData)
      validForms == filterValidForms(categorizedForms)
  IN  [raw |-> sheetsData, categorized |-> categorizedForms,
       valid |-> validForms, statistics |-> getFormStatistics(validForms)]

\* ------------------------------------------------------------------------
\* State
\* ------------------------------------------------------------------------
VARIABLES
  impl,               \* "modular": src/main.js; "original": the single-file script
  entry,              \* "main": the script is run directly; "index": through index.js
  blocks,             \* the blocks under the page of one searcher, by id
  input,              \* the arguments a function of the utilities is called with
  output,             \* what it returned
  run,                \* number of runs started
  phase,              \* where the current run is
  sheet,              \* the rows the current run read
  store,              \* the document store: the pages of the database, by id
  existingPages,      \* original script: ids of the pages fetched at the start
  referralMapping,    \* the referral index: buckets in insertion order
  matchedReferralIds, \* processSearchers: indices of the referrals given out
  i,                  \* position of the loop of the current phase
  results,            \* the counters of processFounders / processSearchers
  out                 \* what each primary row of this run was reconciled to

vars == <<impl, entry, blocks, input, output, run, phase, sheet, store, existingPages, referralMapping,
          matchedReferralIds, i, results, out>>

founders == IF impl = "modular" THEN category(sheet, "founder")
            ELSE originalCategory(sheet, "founder")
founderReferrals == IF impl = "modular" THEN category(sheet, "founder referral")
                    ELSE originalCategory(sheet, "founder referral")
searchers == IF impl = "modular" THEN category(sheet, "searcher")
             ELSE originalCategory(sheet, "searcher")
searcherReferrals == IF impl = "modular" THEN category(sheet, "searcher referral")
                     ELSE originalCategory(sheet, "searcher referral")

\* ------------------------------------------------------------------------
\* Document store
\* ------------------------------------------------------------------------
UnmatchedStartupPrefix ==
  <<"U+26A0","U+FE0F"," ","U","n","m","a","t","c","h","e","d"," ",
    "r","e","f","e","r","r","a","l"," ","f","o","r"," ",
    "s","t","a","r","t","u","p",":"," ">>
UnmatchedSearcherPrefix ==
  <<"U+26A0","U+FE0F"," ","U","n","m","a","t","c","h","e","d"," ",
    "r","e","f","e","r","r","a","l"," ","f","o","r"," ",
    "s","e","a","r","c","h","e","r",":"," ">>

\* a page: its title, whether it is archived, the referral count its
\* status label was last written from, and the referral rows in its content
Page(title, status, rows) ==
  [title |-> title, archived |-> FALSE, status |-> status, rows |-> rows]

\* a title query that also returns archived pages
queryByTitle_WithArchived(title) ==
  {id \in DOMAIN store : store[id].title = title}

\* databases.query with a title filter: the pages that are not archived and
\* whose title equals the text
\* a lookup that finds no page
queryByTitle_NothingFound(title) == {}

queryByTitle(title) ==
  {id \in DOMAIN store : ~store[id].archived /\ store[id].title = title}

\* databases.query without a filter, all cursors followed
queryAll == {id \in DOMAIN store : ~store[id].archived}

\* the status property is left out of the request when there is no referral
statusAfter(old, referralCount) == IF referralCount = 0 THEN old ELSE referralCount

\* ------------------------------------------------------------------------
\* Referral index
\* ------------------------------------------------------------------------
\* a loop that puts each new row first in its bucket
RECURSIVE mappingLoop_NewestFirst(_, _, _)
mappingLoop_NewestFirst(referralRows, idx, mapping) ==
  IF idx > Len(referralRows) THEN mapping
  ELSE LET startupName == trim(referralRows[idx].name)
           normalizedKey == normalizeText(startupName)
           at == {b \in DOMAIN mapping : mapping[b].key = normalizedKey}
       IN  IF startupName = <<>> \/ normalizedKey = <<>>
           THEN mappingLoop_NewestFirst(referralRows, idx + 1, mapping)
           ELSE IF at = {}
                THEN mappingLoop_NewestFirst(referralRows, idx + 1,
                       Append(mapping, [key |-> normalizedKey,
                                        displayName |-> startupName,
                                        referrals |-> <<idx>>]))
                ELSE LET b == CHOOSE x \in at : TRUE
                     IN  mappingLoop_NewestFirst(referralRows, idx + 1,
                           [mapping EXCEPT ![b].referrals = <<idx>> \o @])

RECURSIVE mappingLoop(_, _, _)
mappingLoop(referralRows, idx, mapping) ==
  IF idx > Len(referralRows) THEN mapping
  ELSE LET startupName == trim(referralRows[idx].name)
           normalizedKey == normalizeText(startupName)
           at == {b \in DOMAIN mapping : mapping[b].key = normalizedKey}
       IN  IF startupName = <<>> \/ normalizedKey = <<>>
           THEN mappingLoop(referralRows, idx + 1, mapping)
           ELSE IF at = {}
                THEN mappingLoop(referralRows, idx + 1,
                       Append(mapping, [key |-> normalizedKey,
                                        displayName |-> startupName,
                                        referrals |-> <<idx>>]))
                ELSE LET b == CHOOSE x \in at : TRUE
                     IN  mappingLoop(referralRows, idx + 1,
                           [mapping EXCEPT ![b].referrals = Append(@, idx)])

createReferralMapping(referralRows) == mappingLoop(referralRows, 1, <<>>)

\* Object.keys(referralMapping)
keysOf(mapping) == [b \in DOMAIN mapping |-> mapping[b].key]

\* referralMapping[key], or the empty bucket when the key is absent
NoBucket == [key |-> Null, displayName |-> Null, referrals |-> <<>>]
bucketAt(mapping, key) ==
  IF \E b \in DOMAIN mapping : mapping[b].key = key
  THEN mapping[CHOOSE b \in DOMAIN mapping : mapping[b].key = key]
  ELSE NoBucket

\* a delete that empties the index
deleteKey_EveryBucket(mapping, key) == <<>>

\* a delete that names no key of the index: the index is left as it is
deleteKey_KeepsBucket(mapping, key) == mapping

\* delete referralMapping[key]
deleteKey(mapping, key) == SelectSeq(mapping, LAMBDA b : b.key # key)

rowsOf(referralRows, indices) == [k \in DOMAIN indices |-> referralRows[indices[k]]]

ZeroCounters ==
  [processed |-> 0, created |-> 0, updated |-> 0, errors |-> 0,
   unmatchedReferrals |-> 0]

\* ------------------------------------------------------------------------
\* A run
\* ------------------------------------------------------------------------
\* nothing was called yet
NoCall == [call |-> "none"]

\* before the first run
InitRun ==
  /\ impl \in {"modular", "original"}
  /\ entry \in {"main", "index"}
  /\ entry = "index" => impl = "modular"   \* index.js imports src/main.js
  /\ blocks = <<>>
  /\ run = 0
  /\ phase = "idle"
  /\ sheet = <<>>
  /\ store = <<>>
  /\ existingPages = {}
  /\ referralMapping = <<>>
  /\ matchedReferralIds = {}
  /\ i = 1
  /\ results = [founders |-> ZeroCounters, searchers |-> ZeroCounters]
  /\ out = <<>>

Init == InitRun /\ input = NoCall /\ output = NoCall

\* the phases in which no process is running
Stopped ==
  {"idle", "finished", "aborted", "configError", "readError", "pagesError",
   "exited"}

\* The start of a run, up to the first founder row: the sheet is read, the
\* pages of the database are fetched, the rows are classified and the
\* referral index is built.
BeginRun(sheets, maxRuns) ==
  /\ entry = "main"
  /\ phase \in Stopped
  /\ run < maxRuns
  /\ \E s \in sheets :
       /\ sheet' = s
       /\ referralMapping' =
            createReferralMapping(
              IF impl = "modular" THEN category(s, "founder referral")
              ELSE originalCategory(s, "founder referral"))
  /\ run' = run + 1
  /\ phase' = "founders"
  /\ existingPages' = queryAll
  /\ matchedReferralIds' = {}
  /\ i' = 1
  /\ results' = [founders |-> ZeroCounters, searchers |-> ZeroCounters]
  /\ out' = <<>>
  /\ UNCHANGED <<impl, entry, blocks, store>>

StartRun(sheets, maxRuns) ==
  BeginRun(sheets, maxRuns) /\ UNCHANGED <<input, output>>

\* A start that does not reach the first row.  "config": validateEnvironment
\* throws, synchronously, before the first await of main(); "read":
\* readSpreadsheetData throws; "pages": the sheet was read and the fetch of
\* the database's pages throws (getAllDatabasePages rethrows, the original
\* script awaits the query outside any try).  main()'s catch, or the catch
\* on main(), ends the process with code 1; nothing is displayed.
StartFails(sheets, maxRuns) ==
  /\ phase \in Stopped
  /\ run < maxRuns
  /\ \E fail \in {"config", "read", "pages"} :
       /\ entry = "index" => fail = "config"
       /\ phase' = CASE fail = "config" -> "configError"
                      [] fail = "read" -> "readError"
                      [] fail = "pages" -> "pagesError"
       /\ IF fail = "pages" THEN \E s \in sheets : sheet' = s
          ELSE sheet' = <<>>
  /\ run' = run + 1
  /\ existingPages' = {}
  /\ referralMapping' = <<>>
  /\ matchedReferralIds' = {}
  /\ i' = 1
  /\ results' = [founders |-> ZeroCounters, searchers |-> ZeroCounters]
  /\ out' = <<>>
  /\ UNCHANGED <<impl, entry, blocks, input, output, store>>

\* index.js: import('./src/main.js').then(() => process.exit(0)).  main.js
\* calls main() at its top level without awaiting it, so the module is
\* evaluated, and the import resolved, as soon as main() is suspended at its
\* first await (the read of the sheet); the continuation runs before any
\* input or output completes and ends the process with code 0.
IndexExit(maxRuns) ==
  /\ entry = "index"
  /\ phase \in Stopped
  /\ run < maxRuns
  /\ phase' = "exited"
  /\ run' = run + 1
  /\ sheet' = <<>>
  /\ existingPages' = {}
  /\ referralMapping' = <<>>
  /\ matchedReferralIds' = {}
  /\ i' = 1
  /\ results' = [founders |-> ZeroCounters, searchers |-> ZeroCounters]
  /\ out' = <<>>
  /\ UNCHANGED <<impl, entry, blocks, input, output, store>>

\* the exit code of the process, once it has ended; -1 while it runs.  A run
\* that reaches its end leaves the event loop empty (code 0) or is ended by
\* index.js (code 0); every other end is process.exit(1).
exitCode ==
  CASE phase \in {"finished", "exited"} -> 0
    [] phase \in {"aborted", "configError", "readError", "pagesError"} -> 1
    [] OTHER -> -1

\* a counter that is overwritten with 1 instead of incremented
bump_SetToOne(counters, field) == [counters EXCEPT ![field] = 1]

bump(counters, field) == [counters EXCEPT ![field] = @ + 1]

\* what a primary row was reconciled to: the key it looked up, the referral
\* rows it was given (indices into the referral list), whether it removed
\* the key from the referral index, whether a page of the store was written
\* from the rows, and whether the row went through without a throw
Reconciled(track, row, name, key, given, claimed, attached, ok) ==
  [track |-> track, row |-> row, name |-> name, key |-> key, given |-> given,
   claimed |-> claimed, attached |-> attached, ok |-> ok]

\* ------------------------------------------------------------------------
\* Founders, modular application
\* ------------------------------------------------------------------------
\* One pass of the loop of processFounders: processSingleFounder and the
\* try/catch around it.  fail names the document-store call that throws
\* after its retries.
ProcessSingleFounder ==
  /\ impl = "modular"
  /\ phase = "founders"
  /\ i <= Len(founders)
  /\ \E startupName \in {trim(founders[i].name)} :
     \E founderKey \in {normalizeText(startupName)} :
     \E m \in {findBestMatch(founderKey, keysOf(referralMapping), 2)} :
     \E fail \in {"none", "find", "write"} :
       LET matchedKey == IF m = Null THEN founderKey ELSE m
           referralData == bucketAt(referralMapping, matchedKey)
           matchedReferrals == referralData.referrals
           referralCount == Len(matchedReferrals)
           found == queryByTitle(startupName)
       IN  IF startupName = <<>>
           THEN /\ results' = [results EXCEPT !.founders = bump(@, "errors")]
                /\ out' = Append(out, Reconciled("founder", i, startupName,
                                                 Null, <<>>, FALSE, FALSE, FALSE))
                /\ UNCHANGED <<referralMapping, store>>
           ELSE /\ referralMapping' =
                     IF referralCount > 0
                     THEN deleteKey(referralMapping, matchedKey)
                     ELSE referralMapping
                /\ IF fail = "none"
                   THEN /\ IF found # {}
                           THEN \E existingPage \in found :
                                  store' = [store EXCEPT ![existingPage].status =
                                              statusAfter(@, referralCount)]
                           ELSE store' = Append(store,
                                           Page(startupName, referralCount, <<>>))
                        /\ results' = [results EXCEPT !.founders =
                             bump(bump(@, "processed"),
                                  IF found # {} THEN "updated" ELSE "created")]
                        /\ out' = Append(out, Reconciled("founder", i, startupName,
                                           matchedKey, matchedReferrals,
                                           referralCount > 0, TRUE, TRUE))
                   ELSE /\ store' = store
                        /\ results' = [results EXCEPT !.founders = bump(@, "errors")]
                        /\ out' = Append(out, Reconciled("founder", i, startupName,
                                           matchedKey, matchedReferrals,
                                           referralCount > 0, FALSE, FALSE))
  /\ i' = i + 1
  /\ UNCHANGED <<impl, entry, blocks, input, output, run, phase, sheet, existingPages, matchedReferralIds>>

\* ------------------------------------------------------------------------
\* Founders, original script
\* ------------------------------------------------------------------------
\* One pass of the founders loop of main, with its try/catch: the page is
\* updated or created, its content is written, and only then the key is
\* deleted from referralMap and the stale unmatched page archived.
MainFounderRow ==
  /\ impl = "original"
  /\ phase = "founders"
  /\ i <= Len(founders)
  /\ \E startupName \in {trim(founders[i].name)} :
     \E founderKey \in {normName(startupName)} :
     \E m \in {getBestMatch(founderKey, keysOf(referralMapping))} :
     \E existing \in {{id \in existingPages :
                         normName(store[id].title) = founderKey}} :
     \E fail \in {"none", "write", "content", "archive"} :
       LET matchedKey == IF m = Null THEN founderKey ELSE m
           bundle == bucketAt(referralMapping, matchedKey)
           matchedReferrals == bundle.referrals
           referralCount == Len(matchedReferrals)
           matchedDisplay == IF bundle = NoBucket THEN startupName
                             ELSE bundle.displayName
           shown == rowsOf(founderReferrals, matchedReferrals)
           previouslyUnmatched ==
             {id \in existingPages :
                store[id].title = UnmatchedStartupPrefix \o matchedDisplay}
           written(st, id) ==
             [st EXCEPT ![id].status = statusAfter(@, referralCount)]
           filled(st, id) ==
             IF referralCount > 0 THEN [st EXCEPT ![id].rows = shown] ELSE st
       IN  /\ fail = "archive" => previouslyUnmatched # {}
           /\ \E parentPage \in (IF existing # {} THEN existing
                                 ELSE {Len(store) + 1}) :
                LET base == IF existing # {} THEN store
                            ELSE Append(store, Page(startupName, 0, <<>>))
                    afterWrite == written(base, parentPage)
                    afterContent == filled(afterWrite, parentPage)
                IN  CASE fail = "write" ->
                           /\ store' = store
                           /\ referralMapping' = referralMapping
                           /\ out' = Append(out, Reconciled("founder", i,
                                startupName, matchedKey, matchedReferrals,
                                FALSE, FALSE, FALSE))
                      [] fail = "content" ->
                           /\ store' = afterWrite
                           /\ referralMapping' = referralMapping
                           /\ out' = Append(out, Reconciled("founder", i,
                                startupName, matchedKey, matchedReferrals,
                                FALSE, TRUE, FALSE))
                      [] fail = "archive" ->
                           /\ store' = afterContent
                           /\ referralMapping' = deleteKey(referralMapping, matchedKey)
                           /\ out' = Append(out, Reconciled("founder", i,
                                startupName, matchedKey, matchedReferrals,
                                referralCount > 0, TRUE, FALSE))
                      [] OTHER ->
                           /\ \E old \in (IF previouslyUnmatched # {}
                                          THEN previouslyUnmatched ELSE {0}) :
                                store' = IF old = 0 THEN afterContent
                                         ELSE [afterContent EXCEPT ![old].archived = TRUE]
                           /\ referralMapping' = deleteKey(referralMapping, matchedKey)
                           /\ out' = Append(out, Reconciled("founder", i,
                                startupName, matchedKey, matchedReferrals,
                                referralCount > 0, TRUE, TRUE))
  /\ i' = i + 1
  /\ UNCHANGED <<impl, entry, blocks, input, output, run, phase, sheet, existingPages, matchedReferralIds,
                 results>>

\* ------------------------------------------------------------------------
\* Unmatched founder referrals
\* ------------------------------------------------------------------------
\* One pass of the loop of processUnmatchedReferrals (modular application):
\* createUnmatchedReferralPage in its try/catch.  The page content writer is
\* a stub, so a new page carries no referral rows.
CreateUnmatchedReferralPage ==
  /\ impl = "modular"
  /\ phase = "unmatchedFounder"
  /\ i <= Len(referralMapping)
  /\ \E fail \in {"none", "find", "create"} :
       LET displayName == referralMapping[i].displayName
           pageTitle == UnmatchedStartupPrefix \o displayName
           existingPage == queryByTitle(pageTitle)
       IN  store' = IF fail = "none" /\ existingPage = {}
                    THEN Append(store, Page(pageTitle, 0, <<>>))
                    ELSE store
  /\ i' = i + 1
  /\ UNCHANGED <<impl, entry, blocks, input, output, run, phase, sheet, existingPages, referralMapping,
                 matchedReferralIds, results, out>>

\* One pass of the unmatched-startup loop of main (original script).  There
\* is no try/catch: a failing call ends the run.
MainUnmatchedStartup ==
  /\ impl = "original"
  /\ phase = "unmatchedFounder"
  /\ i <= Len(referralMapping)
  /\ \E fail \in {"none", "write", "content"} :
       LET bundle == referralMapping[i]
           referralRows == rowsOf(founderReferrals, bundle.referrals)
           pageTitle == UnmatchedStartupPrefix \o bundle.displayName
           existing == queryByTitle(pageTitle)
       IN  \E page \in (IF existing # {} THEN existing ELSE {Len(store) + 1}) :
             LET base == IF existing # {} THEN store
                         ELSE Append(store, Page(pageTitle, 0, <<>>))
             IN  CASE fail = "write" -> store' = store /\ phase' = "aborted"
                   [] fail = "content" -> store' = base /\ phase' = "aborted"
                   [] OTHER -> /\ store' = [base EXCEPT ![page].rows = referralRows]
                               /\ phase' = phase
  /\ i' = i + 1
  /\ UNCHANGED <<impl, entry, blocks, input, output, run, sheet, existingPages, referralMapping,
                 matchedReferralIds, results, out>>

\* ------------------------------------------------------------------------
\* Searchers, modular application
\* ------------------------------------------------------------------------
\* findMatchingReferrals: the referral rows whose name cell normalizes to
\* the searcher's normalized name, as indices, in order
findMatchingReferrals(searcherName, referralRows) ==
  IF searcherName = <<>> THEN <<>>
  ELSE SelectSeq([k \in DOMAIN referralRows |-> k],
                 LAMBDA k : /\ referralRows[k].name # <<>>
                            /\ normalizeText(referralRows[k].name)
                                 = normalizeText(searcherName))

Range(f) == {f[x] : x \in DOMAIN f}

\* One pass of the loop of processSearchers: processSingleSearcher and the
\* try/catch around it.
ProcessSingleSearcher ==
  /\ impl = "modular"
  /\ phase = "searchers"
  /\ i <= Len(searchers)
  /\ \E fail \in {"none", "write", "content", "archive"} :
       LET searcherRow == searchers[i]
           searcherName == trim(searcherRow.name)
           matchedReferrals == findMatchingReferrals(searcherName, searcherReferrals)
           referralCount == Len(matchedReferrals)
           shown == rowsOf(searcherReferrals, matchedReferrals)
           found == queryByTitle(searcherName)
           oldPage == queryByTitle(UnmatchedSearcherPrefix \o searcherName)
           filled(st, id) ==
             IF referralCount > 0 THEN [st EXCEPT ![id].rows = shown] ELSE st
           failed(st, attached) ==
             /\ store' = st
             /\ results' = [results EXCEPT !.searchers = bump(@, "errors")]
             /\ out' = Append(out, Reconciled("searcher", i, searcherName,
                          normalizeText(searcherName), matchedReferrals,
                          FALSE, attached, FALSE))
       IN  IF searcherName = <<>>
           THEN /\ failed(store, FALSE)
                /\ UNCHANGED matchedReferralIds
           ELSE /\ matchedReferralIds' = matchedReferralIds \cup Range(matchedReferrals)
                /\ fail = "archive" => oldPage # {}
                /\ \E page \in (IF found # {} THEN found ELSE {Len(store) + 1}) :
                     LET base == IF found # {} THEN store
                                 ELSE Append(store, Page(searcherName, 0, <<>>))
                         afterWrite ==
                           [base EXCEPT ![page].status = statusAfter(@, referralCount)]
                         afterContent == filled(afterWrite, page)
                     IN  CASE fail = "write" -> failed(store, FALSE)
                           [] fail = "content" -> failed(afterWrite, TRUE)
                           [] fail = "archive" -> failed(afterContent, TRUE)
                           [] OTHER ->
                                /\ \E old \in (IF oldPage # {} THEN oldPage ELSE {0}) :
                                     store' = IF old = 0 THEN afterContent
                                              ELSE [afterContent EXCEPT ![old].archived = TRUE]
                                /\ results' = [results EXCEPT !.searchers =
                                     bump(bump(@, "processed"),
                                          IF found # {} THEN "updated" ELSE "created")]
                                /\ out' = Append(out, Reconciled("searcher", i,
                                     searcherName, normalizeText(searcherName),
                                     matchedReferrals, FALSE, TRUE, TRUE))
  /\ i' = i + 1
  /\ UNCHANGED <<impl, entry, blocks, input, output, run, phase, sheet, existingPages, referralMapping>>

\* the referrals processSearchers hands to processUnmatchedSearcherReferrals
unmatchedSearcherReferrals ==
  SelectSeq([k \in DOMAIN searcherReferrals |-> k],
            LAMBDA k : k \notin matchedReferralIds)

Unknown == <<"U","n","k","n","o","w","n">>

\* One pass of the loop of processUnmatchedSearcherReferrals (modular):
\* createUnmatchedSearcherReferralPage for one referral row, in its try/catch
CreateUnmatchedSearcherReferralPage ==
  /\ impl = "modular"
  /\ phase = "unmatchedSearcher"
  /\ i <= Len(unmatchedSearcherReferrals)
  /\ \E fail \in {"none", "find", "create", "content"} :
       LET referral == searcherReferrals[unmatchedSearcherReferrals[i]]
           searcherName == trim(IF referral.name = <<>> THEN Unknown
                                ELSE referral.name)
           pageTitle == UnmatchedSearcherPrefix \o searcherName
           existingPage == queryByTitle(pageTitle)
       IN  /\ fail \in {"create", "content"} => existingPage = {}
           /\ store' =
                IF existingPage # {} \/ fail \in {"find", "create"} THEN store
                ELSE IF fail = "content"
                     THEN Append(store, Page(pageTitle, 0, <<>>))
                     ELSE Append(store, Page(pageTitle, 0, <<referral>>))
  /\ i' = i + 1
  /\ UNCHANGED <<impl, entry, blocks, input, output, run, phase, sheet, existingPages, referralMapping,
                 matchedReferralIds, results, out>>

\* ------------------------------------------------------------------------
\* Searchers, original script
\* ------------------------------------------------------------------------
\* the unmatched list of processUnmatchedSearcherReferrals (original script)
originalUnmatched ==
  LET searcherNameSet ==
        {normName(searchers[k].name) : k \in DOMAIN searchers} \ {<<>>}
  IN  SelectSeq([k \in DOMAIN searcherReferrals |-> k],
                LAMBDA k : LET referred == normName(searcherReferrals[k].name)
                           IN  referred # <<>> /\ referred \notin searcherNameSet)

\* One pass of the loop of processUnmatchedSearcherReferrals (original):
\* createUnmatchedReferralPage upserts the page and rewrites its content
\* from this one row.  No try/catch.
UpsertUnmatchedSearcherReferral ==
  /\ impl = "original"
  /\ phase = "unmatchedSearcher"
  /\ i <= Len(originalUnmatched)
  /\ \E fail \in {"none", "write", "content"} :
       LET r == searcherReferrals[originalUnmatched[i]]
           searcherName == trim(IF r.name = <<>> THEN Unknown ELSE r.name)
           title == UnmatchedSearcherPrefix \o
                      (IF searcherName = <<>> THEN Unknown ELSE searcherName)
           existing == queryByTitle(title)
       IN  \E page \in (IF existing # {} THEN existing ELSE {Len(store) + 1}) :
             LET base == IF existing # {} THEN store
                         ELSE Append(store, Page(title, 0, <<>>))
             IN  CASE fail = "write" -> store' = store /\ phase' = "aborted"
                   [] fail = "content" -> store' = base /\ phase' = "aborted"
                   [] OTHER -> /\ store' = [base EXCEPT ![page].rows = <<r>>]
                               /\ phase' = phase
  /\ i' = i + 1
  /\ UNCHANGED <<impl, entry, blocks, input, output, run, sheet, existingPages, referralMapping,
                 matchedReferralIds, results, out>>

\* One pass of the loop of handleSearcherPages (original script).  Names are
\* compared trimmed and lower-cased.  No try/catch.
HandleSearcherPage ==
  /\ impl = "original"
  /\ phase = "searchers"
  /\ i <= Len(searchers)
  /\ \E fail \in {"none", "write", "archive", "content"} :
       LET row == searchers[i]
           normalize(str) == toLowerCase(trim(str))
           searcherName == normalize(row.name)
           matchedReferrals ==
             SelectSeq([k \in DOMAIN searcherReferrals |-> k],
                       LAMBDA k : normalize(searcherReferrals[k].name) = searcherName)
           searcherRefCount == Len(matchedReferrals)
           shown == rowsOf(searcherReferrals, matchedReferrals)
           searcherTitle == trim(row.name)
           existing == queryByTitle(searcherTitle)
           oldUnmatched == queryByTitle(UnmatchedSearcherPrefix \o searcherTitle)
           rec(attached, ok) ==
             Reconciled("searcher", i, searcherTitle, searcherName,
                        matchedReferrals, FALSE, attached, ok)
       IN  IF searcherTitle = <<>>
           THEN UNCHANGED <<store, phase, out>>
           ELSE /\ fail = "archive" => oldUnmatched # {}
                /\ \E parentPage \in (IF existing # {} THEN existing
                                      ELSE {Len(store) + 1}) :
                     LET base == IF existing # {} THEN store
                                 ELSE Append(store, Page(searcherTitle, 0, <<>>))
                         afterWrite ==
                           [base EXCEPT ![parentPage].status =
                              statusAfter(@, searcherRefCount)]
                     IN  CASE fail = "write" ->
                                /\ store' = store /\ phase' = "aborted"
                                /\ out' = Append(out, rec(FALSE, FALSE))
                           [] fail = "archive" ->
                                /\ store' = afterWrite /\ phase' = "aborted"
                                /\ out' = Append(out, rec(TRUE, FALSE))
                           [] OTHER ->
                                \E old \in (IF oldUnmatched # {} THEN oldUnmatched
                                            ELSE {0}) :
                                  LET afterArchive ==
                                        IF old = 0 THEN afterWrite
                                        ELSE [afterWrite EXCEPT ![old].archived = TRUE]
                                  IN  IF fail = "content"
                                      THEN /\ store' = afterArchive
                                           /\ phase' = "aborted"
                                           /\ out' = Append(out, rec(TRUE, FALSE))
                                      ELSE /\ store' =
                                                IF searcherRefCount > 0
                                                THEN [afterArchive EXCEPT
                                                        ![parentPage].rows = shown]
                                                ELSE afterArchive
                                           /\ phase' = phase
                                           /\ out' = Append(out, rec(TRUE, TRUE))
  /\ i' = i + 1
  /\ UNCHANGED <<impl, entry, blocks, input, output, run, sheet, existingPages, referralMapping,
                 matchedReferralIds, results>>

\* ------------------------------------------------------------------------
\* Between the loops
\* ------------------------------------------------------------------------
loopLength ==
  CASE phase = "founders" -> Len(founders)
    [] phase = "unmatchedFounder" -> Len(referralMapping)
    [] phase = "searchers" -> Len(searchers)
    [] phase = "unmatchedSearcher" ->
         IF impl = "modular" THEN Len(unmatchedSearcherReferrals)
         ELSE Len(originalUnmatched)
    [] OTHER -> 0

\* modular application: processFounders, then processSearchers, each with
\* its unmatched referrals last; original script: founders, unmatched
\* startups, unmatched searcher referrals, and the searcher pages last
phaseAfter ==
  CASE phase = "founders" -> "unmatchedFounder"
    [] phase = "unmatchedFounder" ->
         IF impl = "modular" THEN "searchers" ELSE "unmatchedSearcher"
    [] phase = "searchers" ->
         IF impl = "modular" THEN "unmatchedSearcher" ELSE "finished"
    [] phase = "unmatchedSearcher" ->
         IF impl = "modular" THEN "finished" ELSE "searchers"
    [] OTHER -> phase

\* The loop of the current phase is over: the code after it runs, up to the
\* next loop.  processFounders and processSearchers count what is left.
LoopDone ==
  /\ phase \in {"founders", "unmatchedFounder", "searchers", "unmatchedSearcher"}
  /\ i > loopLength
  /\ phase' = phaseAfter
  /\ i' = 1
  /\ results' =
       IF impl = "modular" /\ phase = "founders"
       THEN [results EXCEPT !.founders.unmatchedReferrals = Len(referralMapping)]
       ELSE IF impl = "modular" /\ phase = "searchers"
            THEN [results EXCEPT !.searchers.unmatchedReferrals =
                    Len(unmatchedSearcherReferrals)]
            ELSE results
  /\ UNCHANGED <<impl, entry, blocks, input, output, run, sheet, store, existingPages, referralMapping,
                 matchedReferralIds, out>>

FounderSteps ==
  \/ ProcessSingleFounder
  \/ MainFounderRow
  \/ CreateUnmatchedReferralPage
  \/ MainUnmatchedStartup

SearcherSteps ==
  \/ ProcessSingleSearcher
  \/ CreateUnmatchedSearcherReferralPage
  \/ UpsertUnmatchedSearcherReferral
  \/ HandleSearcherPage

\* ------------------------------------------------------------------------
\* The content of a searcher page (modular application)
\* ------------------------------------------------------------------------
MaxContentRuns == 3
MaxInsightReferrals == 1

\* a block of the page; parent 0 is the page itself
Block(parent, type, title) ==
  [parent |-> parent, type |-> type, title |-> title, archived |-> FALSE]

\* blocks.children.append: the new blocks come last under their parent
appendChildrenSafely(bl, blockId, children) == bl \o children

\* blocks.children.list: the ids of the blocks under a parent that are not
\* archived, in order
listChildren(bl, parent) ==
  SelectSeq([k \in 1..Len(bl) |-> k],
            LAMBDA k : bl[k].parent = parent /\ ~bl[k].archived)

\* the toggles of a given title under a parent
togglesTitled(bl, parent, title) ==
  SelectSeq(listChildren(bl, parent),
            LAMBDA k : bl[k].type = "toggle" /\ bl[k].title = title)

\* keeps the first toggle of each title, archives the rest
removeDuplicateToggles(bl, parentId, titles) ==
  LET extra(t) == LET found == togglesTitled(bl, parentId, t)
                  IN  IF found = <<>> THEN {} ELSE Range(Tail(found))
  IN  [k \in 1..Len(bl) |->
         IF \E t \in Range(titles) : k \in extra(t)
         THEN [bl[k] EXCEPT !.archived = TRUE]
         ELSE bl[k]]

\* a toggle with one paragraph under it
toggleWithParagraph(bl, title) ==
  <<Block(0, "toggle", title), Block(Len(bl) + 1, "paragraph", title)>>

ensureSearcherPageStructure(bl) ==
  LET hasForm == togglesTitled(bl, 0, "Form") # <<>>
      hasTeamInputs == togglesTitled(bl, 0, "Team Inputs") # <<>>
      withForm == IF hasForm THEN bl
                  ELSE appendChildrenSafely(bl, 0, toggleWithParagraph(bl, "Form"))
      withBoth == IF hasTeamInputs THEN withForm
                  ELSE appendChildrenSafely(
                         withForm, 0, toggleWithParagraph(withForm, "Team Inputs"))
  IN  removeDuplicateToggles(withBoth, 0, <<"Form", "Team Inputs">>)

\* SECTION_TITLES.SEARCHER_*
SearcherSectionTitles ==
  <<"BASICS",
    "YOUR MIND: PROBLEM SOLVING, PRIORITIZATION & PRESSURE",
    "AI LEVERAGE IN ACTION: PREPARING FOR THE AGI ECONOMY",
    "THE MOONSTONE DNA: TRUST, CONFLICT, STRATEGIC LEADERSHIP, NETWORK">>

\* SECTION_TITLES.REFERRAL_*
ReferralSectionTitles ==
  <<"BASICS",
    "THE SEARCHER'S MIND: PROBLEM SOLVING, PRIORITIZATION & PRESSURE",
    "AGI-PROOFING THE FUTURE: AI LEVERAGE IN ACTION",
    "THE MOONSTONE DNA: TRUST, CONFLICT, AND STRATEGIC LEADERSHIP">>

\* a new section toggle under the parent, then its quote toggles (one block
\* stands for the questions of the group); nothing is looked up first
addQuestionSection(bl, parentId, sectionTitle) ==
  LET withSection ==
        appendChildrenSafely(bl, parentId, <<Block(parentId, "toggle", sectionTitle)>>)
      sectionId == Len(withSection)
  IN  appendChildrenSafely(withSection, sectionId,
                           <<Block(sectionId, "quotes", sectionTitle)>>)

RECURSIVE addSections(_, _, _)
addSections(bl, parentId, titles) ==
  IF titles = <<>> THEN bl
  ELSE addSections(addQuestionSection(bl, parentId, Head(titles)),
                   parentId, Tail(titles))

\* the first `count` sections are added, the next append throws (none
\* throws when count is the number of sections)
updateSearcherFormSections(bl, count) ==
  LET formToggle == togglesTitled(bl, 0, "Form")
  IN  IF formToggle = <<>> THEN bl
      ELSE addSections(bl, Head(formToggle), SubSeq(SearcherSectionTitles, 1, count))

referralTitle(k) ==
  CASE k = 1 -> "Referral 1" [] k = 2 -> "Referral 2" [] OTHER -> "Referral 3"

RECURSIVE addReferralBlocks(_, _, _, _)
addReferralBlocks(bl, riId, k, count) ==
  IF k > count THEN bl
  ELSE LET withRef ==
             appendChildrenSafely(bl, riId, <<Block(riId, "toggle", referralTitle(k))>>)
           refId == Len(withRef)
           withTable ==
             appendChildrenSafely(withRef, refId, <<Block(refId, "table", referralTitle(k))>>)
       IN  addReferralBlocks(addSections(withTable, refId, ReferralSectionTitles),
                             riId, k + 1, count)

updateSearcherReferralInsights(bl, count) ==
  LET formToggle == togglesTitled(bl, 0, "Form")
  IN  IF formToggle = <<>> THEN bl
      ELSE LET withInsight ==
                 appendChildrenSafely(
                   bl, Head(formToggle),
                   <<Block(Head(formToggle), "toggle", "REFERRAL INSIGHT")>>)
           IN  addReferralBlocks(withInsight, Len(withInsight), 1, count)

\* updateSearcherPageContent on the page of one searcher, once per run; the
\* page is given `referralCount` referrals.  `done` counts the steps that
\* complete before a call to the store throws: the structure, then each of
\* the sections, then the referral insight.
UpdateSearcherPageContent ==
  /\ impl = "modular"
  /\ entry = "main"
  /\ phase \in Stopped
  /\ run < MaxContentRuns
  /\ \E referralCount \in 0..MaxInsightReferrals,
        done \in 0..(Len(SearcherSectionTitles) + 2) :
       blocks' =
         IF done = 0 THEN blocks
         ELSE LET structured == ensureSearcherPageStructure(blocks)
                  sections == Len(SearcherSectionTitles)
                  filled == updateSearcherFormSections(
                              structured, IF done - 1 < sections THEN done - 1
                                          ELSE sections)
              IN  IF done = sections + 2 /\ referralCount > 0
                  THEN updateSearcherReferralInsights(filled, referralCount)
                  ELSE filled
  /\ run' = run + 1
  /\ UNCHANGED <<impl, entry, input, output, phase, sheet, store, existingPages,
                 referralMapping, matchedReferralIds, i, results, out>>

\* the page of one searcher, updated run after run
SpecSections == Init /\ [][UpdateSearcherPageContent]_vars

\* ------------------------------------------------------------------------
\* The normalizer called on two display names
\* ------------------------------------------------------------------------
MaxTextLen == 3

\* an upper and a lower case letter, a letter with a diacritic, a space and
\* a punctuation mark
TextChars == {"E", "e", "U+00E9", " ", "-"}

InitNormalize ==
  /\ InitRun
  /\ entry = "main"
  /\ input \in [a : SeqsUpTo(TextChars, MaxTextLen),
                 b : SeqsUpTo(TextChars, MaxTextLen)]
  /\ Len(input.b) <= Len(input.a)
  /\ output = NoCall

\* normalizeText of the modular application, normName of the original script
CallNormalize ==
  /\ output = NoCall
  /\ DOMAIN input = {"a", "b"}
  /\ output' = IF impl = "modular"
               THEN [a |-> normalizeText(input.a), b |-> normalizeText(input.b)]
               ELSE [a |-> normName(input.a), b |-> normName(input.b)]
  /\ UNCHANGED <<impl, entry, blocks, input, run, phase, sheet, store,
                 existingPages, referralMapping, matchedReferralIds, i, results,
                 out>>

SpecNormalize == InitNormalize /\ [][CallNormalize]_vars

\* ------------------------------------------------------------------------
\* The completion percentage of a founder row
\* ------------------------------------------------------------------------
MaxTeamMembers == 1

\* columns 66-115 of a founder row
FounderFieldIndices == 66..115

\* original script: each declared team member adds 11 columns from 119 on
TeamMemberIndices(numTeamMembers) == 119..(118 + 11 * numTeamMembers)

\* Math.round of the quotient num / den of two naturals, den > 0: halves go up
mathRound(num, den) == (2 * num + den) \div (2 * den)

\* countFilledFields / getFilledCount; the row is the set of its columns
\* that have content
countFilledFields(row, indices) == Cardinality(row \cap indices)

\* createFounderPage and updateFounderPage: the 50 fixed columns only
completionPercent(row) ==
  mathRound(100 * countFilledFields(row.filled, FounderFieldIndices),
            Cardinality(FounderFieldIndices))

\* original script: the fixed columns and those of the declared team members
originalCompletionPercent(row) ==
  LET allRelevantIndices ==
        FounderFieldIndices \cup TeamMemberIndices(row.numTeamMembers)
      totalCount == Cardinality(allRelevantIndices)
  IN  IF totalCount = 0 THEN 0
      ELSE mathRound(100 * countFilledFields(row.filled, allRelevantIndices),
                     totalCount)

\* founder rows: the first columns of the fixed range filled, a declared
\* number of team members, the first columns of the team ranges filled
InitCompletion ==
  /\ InitRun
  /\ entry = "main"
  /\ \E fixed \in 0..Cardinality(FounderFieldIndices),
        members \in 0..MaxTeamMembers,
        team \in 0..(11 * MaxTeamMembers) :
       input = [filled |-> 66..(65 + fixed) \cup 119..(118 + team),
                numTeamMembers |-> members]
  /\ output = NoCall

CallCompletionPercent ==
  /\ output = NoCall
  /\ DOMAIN input = {"filled", "numTeamMembers"}
  /\ output' = [completionPercent |->
                  IF impl = "modular" THEN completionPercent(input)
                  ELSE originalCompletionPercent(input)]
  /\ UNCHANGED <<impl, entry, blocks, input, run, phase, sheet, store,
                 existingPages, referralMapping, matchedReferralIds, i, results,
                 out>>

SpecCompletion == InitCompletion /\ [][CallCompletionPercent]_vars

\* ------------------------------------------------------------------------
\* The tier label of a referral count
\* ------------------------------------------------------------------------
MaxTierCount == 30

\* a property that is left out of the request
Undefined == "undefined"

\* the labels of 1 to 4 referrals, by track
TierLabels ==
  [founder |-> <<"I Endorsement", "II Endorsements", "III Endorsements",
                 "IV Endorsements">>,
   searcher |-> <<"I Referral", "II Referrals", "III Referrals",
                  "IV Referrals">>]
TopTierLabel == [founder |-> "V+ Endorsements", searcher |-> "V+ Referrals"]

\* a label that takes the top tier for more than 5 referrals only: the
\* table has no fifth entry
statusName_TopAboveFive(track, referralCount) ==
  IF referralCount = 0 THEN Undefined
  ELSE IF referralCount > 5 THEN TopTierLabel[track]
       ELSE IF referralCount \in DOMAIN TierLabels[track]
            THEN TierLabels[track][referralCount]
            ELSE Undefined

\* statusName of buildFounderProperties, referralStatusName of
\* buildSearcherProperties, the Status of the original script's founder pages
statusName(track, referralCount) ==
  IF referralCount = 0 THEN Undefined
  ELSE IF referralCount >= 5 THEN TopTierLabel[track]
       ELSE TierLabels[track][referralCount]

\* sfReferralsLabel of the original script's searcher pages:
\* table[count - 1] || undefined
sfReferralsLabel(track, count) ==
  IF count >= 5 THEN TopTierLabel[track]
  ELSE IF count \in DOMAIN TierLabels[track] THEN TierLabels[track][count]
       ELSE Undefined

InitTier ==
  /\ InitRun
  /\ entry = "main"
  /\ input \in [track : {"founder", "searcher"},
                 referralCount : 0..MaxTierCount]
  /\ output = NoCall

CallStatusName ==
  /\ output = NoCall
  /\ DOMAIN input = {"track", "referralCount"}
  /\ output' = [label |->
                  IF impl = "modular" \/ input.track = "founder"
                  THEN statusName(input.track, input.referralCount)
                  ELSE sfReferralsLabel(input.track, input.referralCount)]
  /\ UNCHANGED <<impl, entry, blocks, input, run, phase, sheet, store,
                 existingPages, referralMapping, matchedReferralIds, i, results,
                 out>>

SpecTier == InitTier /\ [][CallStatusName]_vars

\* ------------------------------------------------------------------------
\* The paginated fetch of the database's pages
\* ------------------------------------------------------------------------
MaxFetches == 3
MaxPageSize == 2

\* databases.query: the results at the cursor (the first ones without a
\* cursor), whether more remain and, if so, the cursor of the next ones
databasesQuery(pages, cursor) ==
  LET at == IF cursor = 0 THEN 1 ELSE cursor
  IN  [results |-> pages[at], has_more |-> at < Len(pages),
       next_cursor |-> IF at < Len(pages) THEN at + 1 ELSE 0]

\* a loop that never follows the cursor
nextCursor_NeverFollowed(response) == 0

\* cursor = response.has_more ? response.next_cursor : undefined (0)
nextCursor(response) == IF response.has_more THEN response.next_cursor ELSE 0

\* the database as the store serves it: up to MaxFetches responses of up to
\* MaxPageSize results each
InitPaging ==
  /\ InitRun
  /\ entry = "main"
  /\ \E n \in 1..MaxFetches :
       \E sizes \in [1..n -> 0..MaxPageSize] :
         input = [pages |-> [k \in 1..n |-> [j \in 1..sizes[k] |-> 10 * k + j]]]
  /\ output = [allPages |-> <<>>, cursor |-> 0, queries |-> 0,
               state |-> "fetching"]

\* getAllDatabasePages (and the same loop of the original script), one
\* iteration of its do-while: the query, which may throw, then the push of
\* the results and the new cursor; the function returns when the cursor is
\* undefined
GetAllDatabasePages ==
  /\ DOMAIN input = {"pages"}
  /\ output.state = "fetching"
  /\ \E fail \in BOOLEAN :
       IF fail
       THEN output' = [output EXCEPT !.state = "thrown"]
       ELSE LET response == databasesQuery(input.pages, output.cursor)
                cursor == nextCursor(response)
            IN  output' = [allPages |-> output.allPages \o response.results,
                           cursor |-> cursor,
                           queries |-> output.queries + 1,
                           state |-> IF cursor # 0 THEN "fetching"
                                     ELSE "returned"]
  /\ UNCHANGED <<impl, entry, blocks, input, run, phase, sheet, store,
                 existingPages, referralMapping, matchedReferralIds, i, results,
                 out>>

SpecPaging == InitPaging /\ [][GetAllDatabasePages]_vars

\* ------------------------------------------------------------------------
\* The matcher called as the founder loops call it
\* ------------------------------------------------------------------------
MaxCandidates == 3

\* normalized keys: what normalizeText returns for a founder's startup name
\* (empty for a name without letter or digit) ...
TargetKeys ==
  { <<>>, <<"a","b">>, <<"a","b","c">>, <<"a","b","c","d">>, <<"b">>,
    <<"x","y","z">> }
\* ... and the keys of the referral index, which are never empty
IndexKeys == TargetKeys \ {<<>>}

\* Object.keys(referralMapping): distinct keys in insertion order
KeyLists ==
  {cs \in SeqsUpTo(IndexKeys, MaxCandidates) :
     \A x, y \in DOMAIN cs : x # y => cs[x] # cs[y]}

InitMatch ==
  /\ InitRun
  /\ entry = "main"
  /\ input \in [target : TargetKeys, candidates : KeyLists]
  /\ output = NoCall

\* processSingleFounder: findBestMatch(founderKey, Object.keys(referralMapping));
\* original script: getBestMatch(founderKey, Object.keys(referralMap))
CallBestMatch ==
  /\ output = NoCall
  /\ DOMAIN input = {"target", "candidates"}
  /\ output' = [match |->
                  IF impl = "modular"
                  THEN findBestMatch(input.target, input.candidates, 2)
                  ELSE getBestMatch(input.target, input.candidates)]
  /\ UNCHANGED <<impl, entry, blocks, input, run, phase, sheet, store,
                 existingPages, referralMapping, matchedReferralIds, i, results,
                 out>>

SpecMatch == InitMatch /\ [][CallBestMatch]_vars

\* the start of one run over a sheet of referral rows: the referral index
\* is built
SpecIndex == Init /\ [][StartRun(IndexSheets, 1)]_vars

\* one run, from an empty store
Next ==
  \/ StartRun(Sheets, 1)
  \/ StartFails(Sheets, 1)
  \/ IndexExit(1)
  \/ FounderSteps
  \/ SearcherSteps
  \/ LoopDone
Spec == Init /\ [][Next]_vars

\* up to MaxLongRuns runs in a row over sheets of up to MaxRunRows founder
\* and founder referral rows
NextFounderRuns ==
  StartRun(FounderRunSheets, MaxLongRuns) \/ FounderSteps \/ LoopDone
SpecFounderRuns == Init /\ [][NextFounderRuns]_vars

\* the same with searcher and searcher referral rows
NextSearcherRuns ==
  StartRun(SearcherRunSheets, MaxLongRuns) \/ SearcherSteps \/ LoopDone
SpecSearcherRuns == Init /\ [][NextSearcherRuns]_vars

\* searcher sheets read run after run in which the referral names the
\* searcher in the searcher's own spelling or in lower case
SpellingRunRows ==
  { [kind |-> "searcher", name |-> <<"A","n","n">>],
    [kind |-> "searcher referral", name |-> <<"A","n","n">>],
    [kind |-> "searcher referral", name |-> <<"a","n","n">>] }
SpellingRunSheets == SeqsUpTo(SpellingRunRows, MaxRunRows)
NextSpellingRuns ==
  StartRun(SpellingRunSheets, MaxSpellingRuns) \/ SearcherSteps \/ LoopDone
SpecSpellingRuns == Init /\ [][NextSpellingRuns]_vars

\* ------------------------------------------------------------------------
\* The retry wrapper
\* ------------------------------------------------------------------------
MaxAttempts == 4

\* what a call of the wrapped operation settles with: "ok", or the code of
\* the error it rejects with
ErrorCodes == {"rate_limited", "ECONNRESET", "500", "validation_error"}

\* a classification that retries every error
isRetryableError_Always(error) == TRUE

\* isRetryableError of the modular services (the errors are told apart by
\* their code)
isRetryableError(error) ==
  error.code \in {"rate_limited", "429", "503", "ECONNRESET", "ENOTFOUND",
                  "UND_ERR_CONNECT_TIMEOUT", "UND_ERR_HEADERS_TIMEOUT",
                  "UND_ERR_SOCKET"}

\* transient, in withRetry of the original script
transient(err) ==
  err.code \in {"rate_limited", "service_unavailable",
                "notionhq_client_request_timeout", "429", "408", "500", "502",
                "503", "504"}

NoOutcome == [code |-> "none", attempt |-> 0]

InitRetry ==
  /\ InitRun
  /\ entry = "main"
  /\ \E maxAttempts \in 1..MaxAttempts : input = [maxAttempts |-> maxAttempts]
  /\ output = [calls |-> <<>>, state |-> "running", outcome |-> NoOutcome]

\* withRetry, one pass of its loop: the call of the operation and what
\* follows it up to the next call.  The modular wrapper throws at once when
\* the error is not retryable or the attempt was the last one, and sleeps
\* otherwise; the original throws at once when the error is not transient,
\* and otherwise sleeps and, after the last try, leaves the loop and throws
\* lastErr.
WithRetry ==
  /\ DOMAIN input = {"maxAttempts"}
  /\ output.state = "running"
  /\ \E code \in {"ok"} \cup ErrorCodes :
       LET attempt == Len(output.calls) + 1
           settled == [code |-> code, attempt |-> attempt]
           again ==
             IF impl = "modular"
             THEN isRetryableError(settled) /\ attempt # input.maxAttempts
             ELSE transient(settled) /\ attempt < input.maxAttempts
           state == IF code = "ok" THEN "returned"
                    ELSE IF again THEN "running" ELSE "thrown"
       IN  output' = [calls |-> Append(output.calls, settled),
                      state |-> state,
                      outcome |-> IF state = "running" THEN NoOutcome
                                  ELSE settled]
  /\ UNCHANGED <<impl, entry, blocks, input, run, phase, sheet, store,
                 existingPages, referralMapping, matchedReferralIds, i, results,
                 out>>

SpecRetry == InitRetry /\ [][WithRetry]_vars

\* every call of the operation settles and every sleep ends, so a pass that
\* can be taken is taken
SpecRetryFair == SpecRetry /\ WF_vars(WithRetry)

\* ------------------------------------------------------------------------
\* The summary at the end of a run
\* ------------------------------------------------------------------------
MaxSummaryRows == 3

\* generateSummaryMetrics, and the same totals and rate in
\* displayOverallStatistics
generateSummaryMetrics(r) ==
  LET totalProcessed == r.founders.processed + r.searchers.processed
      totalCreated == r.founders.created + r.searchers.created
      totalUpdated == r.founders.updated + r.searchers.updated
      totalErrors == r.founders.errors + r.searchers.errors
  IN  [totalProcessed |-> totalProcessed,
       totalCreated |-> totalCreated,
       totalUpdated |-> totalUpdated,
       totalErrors |-> totalErrors,
       successRate |->
         IF totalProcessed > 0
         THEN mathRound((totalProcessed - totalErrors) * 100, totalProcessed)
         ELSE 0]

\* sheets of up to MaxSummaryRows rows, founders and referrals
SummaryRows ==
  { [kind |-> "founder", name |-> <<"A">>],
    [kind |-> "founder referral", name |-> <<"a","c","m","e">>] }
SummarySheets == SeqsUpTo(SummaryRows, MaxSummaryRows)
NextSummary == StartRun(SummarySheets, 1) \/ FounderSteps \/ LoopDone
SpecSummary == Init /\ [][NextSummary]_vars

\* ------------------------------------------------------------------------
\* The import run twice on the same rows
\* ------------------------------------------------------------------------
\* rows of both tracks: a founder and a referral within distance 2 of it, a
\* referral no founder is near, a searcher, a referral naming the searcher
\* and one naming nobody on the sheet
RepeatRows ==
  { [kind |-> "founder", name |-> <<"A">>],
    [kind |-> "founder referral", name |-> <<"A","c","m">>],
    [kind |-> "founder referral", name |-> <<"a","c","m","e">>],
    [kind |-> "searcher", name |-> <<"A","n","n">>],
    [kind |-> "searcher referral", name |-> <<"a","n","n">>],
    [kind |-> "searcher referral", name |-> <<"A","n">>] }
RepeatSheets == SeqsUpTo(RepeatRows, MaxRunRows)

\* the title of the placeholder of a searcher referral row
searcherPlaceholderTitle(referral) ==
  LET searcherName == trim(IF referral.name = <<>> THEN Unknown
                           ELSE referral.name)
  IN  UnmatchedSearcherPrefix \o searcherName

\* the store holds an active page with that title
activeTitled(title) ==
  \E id \in DOMAIN store : ~store[id].archived /\ store[id].title = title

\* the run has reached its end and no call of it has failed: every primary
\* row went through and every placeholder the unmatched handlers were to
\* write is in the store
NothingFailed ==
  /\ phase = "finished"
  /\ \A p \in DOMAIN out : out[p].ok
  /\ \A b \in DOMAIN referralMapping :
       activeTitled(UnmatchedStartupPrefix \o referralMapping[b].displayName)
  /\ \A k \in Range(IF impl = "modular" THEN unmatchedSearcherReferrals
                     ELSE originalUnmatched) :
       activeTitled(searcherPlaceholderTitle(searcherReferrals[k]))

\* The import is started on a sheet and, once it has ended without a
\* failure, started again on the same rows.  output keeps the store and the
\* counters as they were when the run was started.
RepeatRun ==
  /\ BeginRun(RepeatSheets, MaxRepeats)
  /\ run > 0 => NothingFailed /\ sheet' = sheet
  /\ output' = [store |-> store, results |-> results]
  /\ input' = input

NextRepeat == RepeatRun \/ FounderSteps \/ SearcherSteps \/ LoopDone
SpecRepeat == Init /\ [][NextRepeat]_vars

\* ------------------------------------------------------------------------
\* Properties
\* ------------------------------------------------------------------------
founderRecords == {p \in DOMAIN out : out[p].track = "founder"}
searcherRecords == {p \in DOMAIN out : out[p].track = "searcher"}

\* the founder loop of the current run is over
AfterFounderLoop ==
  phase \in {"unmatchedFounder", "searchers", "unmatchedSearcher",
             "finished", "aborted"}

\* the referral index as it was built at the start of the run
initialMapping == createReferralMapping(founderReferrals)

\* C1: in one run of the founder reconciliation no referral bucket is
\* attached to the output of two different founder rows, whatever the sheet
\* and whichever writes fail.
C1_BucketAttachedAtMostOnce ==
  \A p, q \in founderRecords :
    (p < q /\ out[p].attached /\ out[q].attached /\ out[p].given # <<>>)
      => out[p].given # out[q].given

\* C2: when the processing of a primary row throws, the run does not abort:
\* the error is caught and counted, and the loop goes on to the next primary
\* row.
errorCount == results.founders.errors + results.searchers.errors
C2_RowFailureCaughtAndCounted ==
  [][(Len(out') = Len(out) + 1 /\ ~out'[Len(out')].ok)
       => /\ phase' = phase
          /\ i' = i + 1
          /\ errorCount' = errorCount + 1]_vars

\* C3: when a placeholder page for display name D exists from an earlier
\* run and a founder row of the current run successfully claims the bucket
\* whose display name is D, that placeholder page is archived by the end of
\* the run.
C3_ClaimedPlaceholderArchived ==
  phase = "finished" =>
    \A p \in founderRecords :
      (out[p].ok /\ out[p].given # <<>>) =>
        \A id \in existingPages :
          store[id].title =
              UnmatchedStartupPrefix
                \o trim(founderReferrals[out[p].given[1]].name)
            => store[id].archived

\* C4: after the founder loop has gone over every founder row the referral
\* index holds exactly the buckets whose keys no founder row claimed.
C4_IndexHoldsUnclaimedBuckets ==
  AfterFounderLoop =>
    {referralMapping[b].key : b \in DOMAIN referralMapping} =
      {initialMapping[b].key : b \in
         {c \in DOMAIN initialMapping :
            \A p \in founderRecords :
              out[p].given = <<>> \/ out[p].key # initialMapping[c].key}}

\* C5: at the end of a run every bucket left in the referral index has
\* exactly one active placeholder page, titled with the display name of the
\* bucket and holding all the rows of the bucket.
C5_OnePlaceholderPerLeftoverBucket ==
  phase = "finished" =>
    \A b \in DOMAIN referralMapping :
      LET pages == queryByTitle(UnmatchedStartupPrefix
                                  \o referralMapping[b].displayName)
      IN  /\ Cardinality(pages) = 1
          /\ \A id \in pages :
               store[id].rows =
                 rowsOf(founderReferrals, referralMapping[b].referrals)

\* the n-th row of a form type, counted in the sheet itself
nthRow(kind, n) ==
  sheet[CHOOSE k \in DOMAIN sheet :
          /\ sheet[k].kind = kind
          /\ Cardinality({j \in 1..k : sheet[j].kind = kind}) = n]

\* the referral rows of the bucket of an index that is nearest to a name:
\* the first of the buckets at the least distance, when that distance is at
\* most 2; no row when there is none
nearestRows(name, mapping) ==
  LET key == normalizeText(name)
      d(b) == distance(key, mapping[b].key)
      near == {b \in DOMAIN mapping :
                 d(b) <= 2 /\ \A c \in DOMAIN mapping : d(b) <= d(c)}
  IN  IF near = {} THEN <<>>
      ELSE mapping[CHOOSE b \in near : \A c \in near : b <= c].referrals

\* a name is within the fuzzy threshold of a bucket key
fuzzyMatches(name, key) == distance(normalizeText(name), key) <= 2

C7_NearestBucketWithinTwo ==
  [][Len(out') = Len(out) + 1 =>
       LET rec == out'[Len(out')]
       IN  rec.given =
             nearestRows(rec.name,
                         IF rec.track = "founder" THEN referralMapping
                         ELSE createReferralMapping(searcherReferrals))]_vars

\* C8: once a searcher row has been given referral rows, no later searcher
\* row of the same run is given any of them.
C8_SearcherReferralsGivenOnce ==
  \A p, q \in searcherRecords :
    p < q => Range(out[p].given) \cap Range(out[q].given) = {}

\* the key of the bucket of an index that best matches a name, Null when
\* none is within distance 2
bestKeyIn(name, mapping) ==
  LET key == normalizeText(name)
      d(b) == distance(key, mapping[b].key)
      near == {b \in DOMAIN mapping :
                 d(b) <= 2 /\ \A c \in DOMAIN mapping : d(b) <= d(c)}
  IN  IF near = {} THEN Null
      ELSE mapping[CHOOSE b \in near : \A c \in near : b <= c].key

\* the same in the referral index as it was built at the start of the run
bestInitialKey(name) == bestKeyIn(name, initialMapping)

\* the founder rows before row q that removed the key from the index
claimedBefore(q, key) ==
  {p \in founderRecords : p < q /\ out[p].claimed /\ out[p].key = key}

\* the buckets of the initial index that no founder row before row q removed
leftFor(q) ==
  SelectSeq(initialMapping, LAMBDA b : claimedBefore(q, b.key) = {})

startsWith(text, prefix) ==
  Len(text) >= Len(prefix) /\ SubSeq(text, 1, Len(prefix)) = prefix
isPlaceholder(page) ==
  \/ startsWith(page.title, UnmatchedStartupPrefix)
  \/ startsWith(page.title, UnmatchedSearcherPrefix)

C11_ExitZeroOnlyAfterMainFinished ==
  [][(entry = "index" /\ phase' = "exited") => phase = "finished"]_vars

\* C12: once the configuration is valid and the rows of the sheet are read,
\* no failure of a document-store call halts the run: a run stops before its
\* end-of-run summary only on a configuration error or on a failed read of
\* the sheet.
C12_StoreFailureNeverHaltsRun ==
  phase \notin {"pagesError", "aborted"}

\* C13: the process ends with code 0 whenever the run reaches its end,
\* however many per-item errors were counted, and with a non-zero code only
\* when the startup (configuration, read of the sheet, fetch of the pages)
\* fails.
C13_NonZeroOnlyOnStartupFailure ==
  /\ phase = "finished" => exitCode = 0
  /\ exitCode = 1 =>
       phase \in {"configError", "readError", "pagesError"}

\* ------------------------------------------------------------------------
\* The sections of a searcher page
\* ------------------------------------------------------------------------
\* C14: section creation is idempotent: after any number of updates of the
\* same searcher page, no two sections under the same parent bear the same
\* title.
C14_SectionTitleOncePerParent ==
  \A a, b \in 1..Len(blocks) :
    /\ a # b
    /\ blocks[a].type = "toggle" /\ blocks[b].type = "toggle"
    /\ ~blocks[a].archived /\ ~blocks[b].archived
    /\ blocks[a].parent = blocks[b].parent
    => blocks[a].title # blocks[b].title

\* ------------------------------------------------------------------------
\* The referral index as built
\* ------------------------------------------------------------------------
\* the index has just been built and no row has been reconciled yet
IndexJustBuilt == phase = "founders" /\ i = 1 /\ out = <<>>

\* the buckets of the index that hold the referral row idx
bucketsHolding(idx) ==
  {b \in DOMAIN referralMapping : idx \in Range(referralMapping[b].referrals)}

\* each bucket keeps its rows in input order and shows the trimmed raw name
\* of its first row
BucketsOrderedAndNamed ==
  \A b \in DOMAIN referralMapping :
    LET held == referralMapping[b].referrals
    IN  /\ held # <<>>
        /\ \A x, y \in DOMAIN held : x < y => held[x] < held[y]
        /\ referralMapping[b].displayName = trim(founderReferrals[held[1]].name)

\* C15 as stated: once the index is built, every referral row with a
\* non-empty name is in exactly one bucket, the one keyed by the normalized
\* form of its name cell; the buckets keep input order and show the trimmed
\* raw name of their first row.
C15_EveryNamedRowInItsBucket ==
  IndexJustBuilt =>
    /\ \A idx \in DOMAIN founderReferrals :
         trim(founderReferrals[idx].name) # <<>> =>
           /\ Cardinality(bucketsHolding(idx)) = 1
           /\ \A b \in bucketsHolding(idx) :
                referralMapping[b].key =
                  normalizeText(trim(founderReferrals[idx].name))
    /\ BucketsOrderedAndNamed

\* C15, amended: the rows in question are those whose name normalizes to a
\* non-empty key; a row whose name holds no letter or digit is in no bucket,
\* and no two buckets share a key.
C15_EveryKeyedRowInItsBucket ==
  IndexJustBuilt =>
    /\ \A idx \in DOMAIN founderReferrals :
         \A key \in {normalizeText(trim(founderReferrals[idx].name))} :
           IF key # <<>>
           THEN /\ Cardinality(bucketsHolding(idx)) = 1
                /\ \A b \in bucketsHolding(idx) : referralMapping[b].key = key
           ELSE bucketsHolding(idx) = {}
    /\ \A a, b \in DOMAIN referralMapping :
         a # b => referralMapping[a].key # referralMapping[b].key
    /\ BucketsOrderedAndNamed

\* an index with a bucket of two rows whose raw names differ, beside a row
\* that is in no bucket
C15_SharedBucketAndSkippedRow ==
  /\ IndexJustBuilt
  /\ \E b \in DOMAIN referralMapping :
       /\ Len(referralMapping[b].referrals) = 2
       /\ founderReferrals[referralMapping[b].referrals[1]].name
            # founderReferrals[referralMapping[b].referrals[2]].name
  /\ \E idx \in DOMAIN founderReferrals :
       /\ trim(founderReferrals[idx].name) # <<>>
       /\ bucketsHolding(idx) = {}

\* ------------------------------------------------------------------------
\* The matcher
\* ------------------------------------------------------------------------
\* the matcher was called on input.target and input.candidates
Matched == DOMAIN output = {"match"}

\* the least distance from the target to a candidate
leastDistance(target, candidates) ==
  CHOOSE d \in {distance(target, candidates[k]) : k \in DOMAIN candidates} :
    \A k \in DOMAIN candidates : d <= distance(target, candidates[k])

\* the first candidate, in iteration order, at the least distance when that
\* is at most 2, null when there is no candidate or every one is further
firstNearest(target, candidates) ==
  IF candidates = <<>> THEN Null
  ELSE LET d == leastDistance(target, candidates)
           first == CHOOSE k \in DOMAIN candidates :
                      /\ distance(target, candidates[k]) = d
                      /\ \A j \in 1..(k - 1) : distance(target, candidates[j]) # d
       IN  IF d <= 2 THEN candidates[first] ELSE Null

\* C16 as stated: bestMatch returns the first candidate, in iteration
\* order, among those at minimum edit distance from the target when that
\* minimum is at most maxDistance, and null when every candidate is further.
C16_FirstNearestCandidate ==
  Matched => output.match = firstNearest(input.target, input.candidates)

\* C16, amended: so it is for a target that is not empty, and for every
\* target in the original script; findBestMatch returns null for the empty
\* target whatever the candidates.
C16_FirstNearestForNonEmptyTarget ==
  Matched =>
    IF input.target = <<>> /\ impl = "modular"
    THEN output.match = Null
    ELSE output.match = firstNearest(input.target, input.candidates)

\* two candidates at the same least distance: the first was returned and it
\* is not the last of the list
C16_TieGoesToFirst ==
  /\ Matched
  /\ input.target # <<>>
  /\ \E x, y \in DOMAIN input.candidates :
       /\ x < y
       /\ output.match = input.candidates[x]
       /\ distance(input.target, input.candidates[x])
            = distance(input.target, input.candidates[y])
       /\ distance(input.target, input.candidates[x]) > 0

\* C17: for every key k and every list of candidates that holds k
\* verbatim, bestMatch(k, candidates) is k.
C17_VerbatimKeyMatchesItself ==
  Matched /\ (\E k \in DOMAIN input.candidates : input.candidates[k] = input.target)
    => output.match = input.target

\* the key was found behind another candidate within the threshold
C17_KeyFoundBehindNearCandidate ==
  /\ Matched
  /\ Len(input.candidates) > 1
  /\ input.candidates[Len(input.candidates)] = input.target
  /\ distance(input.target, input.candidates[1]) = 1
  /\ output.match = input.target

\* ------------------------------------------------------------------------
\* The normalizer
\* ------------------------------------------------------------------------
\* the normalizer was called on input.a and input.b
Normalized == DOMAIN output = {"a", "b"}

\* a name with its case folded and its diacritics taken off
folded(s) ==
  SelectSeq(Flatten([k \in 1..Len(s) |-> nfkdChar(lowerChar(s[k]))]),
            LAMBDA c : c \notin Diacritic)

\* the letters and digits of a name, whatever separates them
letters(s) == SelectSeq(folded(s), LAMBDA c : c \in Alnum)

\* the words of a name: its maximal runs of letters and digits
RECURSIVE splitWords(_, _, _)
splitWords(s, word, done) ==
  IF s = <<>> THEN IF word = <<>> THEN done ELSE Append(done, word)
  ELSE IF Head(s) \in Alnum
       THEN splitWords(Tail(s), Append(word, Head(s)), done)
       ELSE splitWords(Tail(s), <<>>,
                       IF word = <<>> THEN done ELSE Append(done, word))

words(s) == splitWords(folded(s), <<>>, <<>>)

C19_NormalizeIdempotent ==
  Normalized =>
    IF impl = "modular" THEN normalizeText(output.a) = output.a
    ELSE normName(output.a) = output.a

\* a name that normalizing changed: its diacritic and the separators at its
\* ends are gone
C19_NameChangedByNormalize ==
  /\ Normalized
  /\ input.a = <<"-", "U+00E9", " ">>
  /\ output.a = <<"e">>

tierOf(label) ==
  CASE label \in {"I Endorsement", "I Referral"} -> "I"
    [] label \in {"II Endorsements", "II Referrals"} -> "II"
    [] label \in {"III Endorsements", "III Referrals"} -> "III"
    [] label \in {"IV Endorsements", "IV Referrals"} -> "IV"
    [] label \in {"V+ Endorsements", "V+ Referrals"} -> "V+"
    [] OTHER -> "none"

\* C22: the tier label is undefined for 0 matched referrals, the "I", "II",
\* "III", "IV" label for exactly 1, 2, 3, 4 and the "V+" label for every
\* count of 5 or more.
C22_TierLabelOfCount ==
  DOMAIN output = {"label"} =>
    /\ input.referralCount = 0 <=> output.label = Undefined
    /\ tierOf(output.label) =
         CASE input.referralCount = 0 -> "none"
           [] input.referralCount = 1 -> "I"
           [] input.referralCount = 2 -> "II"
           [] input.referralCount = 3 -> "III"
           [] input.referralCount = 4 -> "IV"
           [] OTHER -> "V+"

\* exactly 5 referrals carry the top label
C22_FiveIsTopTier ==
  /\ DOMAIN output = {"label"}
  /\ input.referralCount = 5
  /\ tierOf(output.label) = "V+"

\* ------------------------------------------------------------------------
\* The paginated fetch
\* ------------------------------------------------------------------------
\* C23: getAllDatabasePages returns only after the store has reported that
\* no more pages remain, and what it returns holds the results of every
\* response exactly once, in the order they were fetched.
C23_ReturnsEveryResultOnce ==
  DOMAIN input = {"pages"} /\ output.state = "returned" =>
    /\ output.queries = Len(input.pages)
    /\ output.allPages = Flatten(input.pages)
    /\ \A x, y \in DOMAIN output.allPages :
         x # y => output.allPages[x] # output.allPages[y]

\* a fetch over MaxFetches responses, one of them empty, has returned
C23_ReturnedAfterLastCursor ==
  /\ DOMAIN input = {"pages"}
  /\ output.state = "returned"
  /\ output.queries = MaxFetches
  /\ \E k \in DOMAIN input.pages : input.pages[k] = <<>>
  /\ Len(output.allPages) > MaxPageSize

\* ------------------------------------------------------------------------
\* Who changes the referral index
\* ------------------------------------------------------------------------
\* the index, the buckets keyed by one key removed and nothing else changed
withoutOneKey(before, after) ==
  \E b \in DOMAIN before :
    after = SelectSeq(before, LAMBDA x : x.key # before[b].key)

\* C24: the referral index is built at the start of the run and afterwards
\* changed only by the claim step of the founders loop, for one primary row
\* at a time: a step that changes it handles exactly row i of the founders,
\* records that row as having claimed its key and removes the bucket of that
\* one key; the unmatched handlers and the searcher steps leave it alone.
C24_IndexChangedOnlyByClaimStep ==
  [][referralMapping' # referralMapping =>
       \/ run' = run + 1
       \/ /\ phase = "founders" /\ phase' = "founders"
          /\ i' = i + 1
          /\ Len(out') = Len(out) + 1
          /\ out'[Len(out')].row = i
          /\ out'[Len(out')].claimed
          /\ withoutOneKey(referralMapping, referralMapping')
          /\ referralMapping' =
               SelectSeq(referralMapping,
                         LAMBDA x : x.key # out'[Len(out')].key)]_vars

\* a run has finished in which a founder row claimed one bucket of an index
\* of two and the unmatched handler went over the bucket left
C24_OneBucketClaimedOneLeft ==
  /\ phase = "finished"
  /\ Len(referralMapping) = 1
  /\ \E k \in DOMAIN out : out[k].track = "founder" /\ out[k].claimed
  /\ \E id \in DOMAIN store :
       store[id].title = UnmatchedStartupPrefix \o referralMapping[1].displayName

\* ------------------------------------------------------------------------
\* What becomes of a referral row
\* ------------------------------------------------------------------------
\* a referral row has a usable name
usable(row) == trim(row.name) # <<>> /\ normalizeText(trim(row.name)) # <<>>

\* the referral row k of a track was given to a primary row whose page was
\* written
attachedTo(track, k) ==
  \E p \in DOMAIN out :
    out[p].track = track /\ out[p].attached /\ k \in Range(out[p].given)

\* an active placeholder page with that title exists
placeholderFor(title) == queryByTitle(title) # {}

\* C25: at the end of a run every referral row with a usable name is either
\* attached to a primary page whose write succeeded or shown on an unmatched
\* placeholder, also when the write of the primary row it matched failed.
C25_ReferralAttachedOrOnPlaceholder ==
  phase = "finished" =>
    /\ \A b \in DOMAIN initialMapping : \A k \in Range(initialMapping[b].referrals) :
         \/ attachedTo("founder", k)
         \/ placeholderFor(UnmatchedStartupPrefix \o initialMapping[b].displayName)
    /\ \A k \in DOMAIN searcherReferrals :
         usable(searcherReferrals[k]) =>
           \/ attachedTo("searcher", k)
           \/ placeholderFor(UnmatchedSearcherPrefix
                               \o trim(searcherReferrals[k].name))

\* ------------------------------------------------------------------------
\* The counters of the processors
\* ------------------------------------------------------------------------
\* the counters of a processor add up over the rows it was passed
addsUp(counters, rows) ==
  /\ counters.processed + counters.errors = Len(rows)
  /\ counters.created + counters.updated = counters.processed

placeholderName(page) ==
  SubSeq(page.title, Len(UnmatchedSearcherPrefix) + 1, Len(page.title))

\* C27: a placeholder page that an earlier run created from referral rows
\* naming a searcher is archived in a later run in which a searcher row
\* whose name normalizes to the same key is processed successfully, also
\* when the referral spelled the name with another case, accent or
\* punctuation.
C27_PlaceholderArchivedOnArrival ==
  phase = "finished" =>
    \A p \in searcherRecords : \A id \in existingPages :
      (/\ out[p].ok
       /\ startsWith(store[id].title, UnmatchedSearcherPrefix)
       /\ normalizeText(placeholderName(store[id]))
            = normalizeText(out[p].name))
        => store[id].archived

\* ------------------------------------------------------------------------
\* The second run on the same rows
\* ------------------------------------------------------------------------
\* the active placeholder pages of a store
activePlaceholders(st) ==
  {id \in DOMAIN st : ~st[id].archived /\ isPlaceholder(st[id])}

\* a run that was started on the rows of the run before has ended without a
\* failure
SecondRunDone == run > 1 /\ DOMAIN output = {"store", "results"} /\ NothingFailed

\* C28: when the import is run a second time on the same rows, with no
\* failure and no change to the store in between, the second run creates no
\* page, every primary row is counted as updated, and the active placeholder
\* pages are the same after both runs.
C28_SecondRunCreatesNothing ==
  SecondRunDone =>
    /\ Len(store) = Len(output.store)
    /\ activePlaceholders(store) = activePlaceholders(output.store)
    /\ impl = "modular" =>
         /\ results.founders.created = 0
         /\ results.founders.updated = Len(founders)
         /\ results.searchers.created = 0
         /\ results.searchers.updated = Len(searchers)

\* a second run has ended on a sheet with a primary row and a referral
\* nobody claimed: the page of the row and the placeholder are those of the
\* first run
C28_SecondRunOverPageAndPlaceholder ==
  /\ SecondRunDone
  /\ Len(out) >= 1
  /\ activePlaceholders(store) # {}
  /\ Len(store) >= 2

\* ------------------------------------------------------------------------
\* The success rate of the summary
\* ------------------------------------------------------------------------
\* C29: the overall success rate of the end-of-run summary, (processed -
\* errored) / processed over the counters of the processors, is never
\* negative and never above 100%, whichever rows succeed and fail.
C29_SuccessRateWithinZeroAndHundred ==
  (impl = "modular" /\ phase = "finished") =>
    /\ generateSummaryMetrics(results).successRate >= 0
    /\ generateSummaryMetrics(results).successRate <= 100

\* ------------------------------------------------------------------------
\* The retry wrapper
\* ------------------------------------------------------------------------
Retrying == DOMAIN input = {"maxAttempts"}

\* the codes, of those the operation rejects with here, that each wrapper
\* retries
worthRetrying(call) ==
  call.code \in (IF impl = "modular" THEN {"rate_limited", "ECONNRESET"}
                 ELSE {"rate_limited", "500"})

\* every call before the last one failed with an error worth retrying
earlierCallsRetried ==
  \A k \in 1..(Len(output.calls) - 1) : worthRetrying(output.calls[k])

lastCall == output.calls[Len(output.calls)]

RetryStepsRight ==
  Retrying =>
    /\ Len(output.calls) <= input.maxAttempts
    /\ output.state = "running" =>
         /\ Len(output.calls) < input.maxAttempts
         /\ \A k \in DOMAIN output.calls : worthRetrying(output.calls[k])
    /\ output.state = "returned" =>
         /\ lastCall.code = "ok"
         /\ output.outcome = lastCall
         /\ earlierCallsRetried
    /\ output.state = "thrown" =>
         /\ lastCall.code # "ok"
         /\ output.outcome = lastCall
         /\ earlierCallsRetried
         /\ ~worthRetrying(lastCall) \/ Len(output.calls) = input.maxAttempts

\* C30: withRetry always terminates, after at most maxAttempts calls of the
\* wrapped operation: it returns the result of the first call that
\* succeeds, rethrows an error that is not retryable right after the call
\* that raised it, and rethrows the last error once maxAttempts calls have
\* failed with retryable errors.
C30_RetryTerminatesWithinMaxAttempts ==
  /\ []RetryStepsRight
  /\ Retrying ~> (output.state \in {"returned", "thrown"})

\* the last error was rethrown after maxAttempts retryable failures
C30_GaveUpAfterLastAttempt ==
  /\ Retrying
  /\ output.state = "thrown"
  /\ Len(output.calls) = input.maxAttempts
  /\ input.maxAttempts >= 3
  /\ worthRetrying(lastCall)

====
